---- MODULE Spec2Model ----
(***************************************************************************)
(* Model of package sqlm (rvflash/sqlm): the transaction runner WithTx     *)
(* (tx.go) and the dynamic query helpers QueryAny / QueryAnyRows (any.go). *)
(* The database (BeginTx, the callback f, Commit, Rollback, QueryContext,  *)
(* ColumnTypes, Next, Scan, Close, Err) is the environment: each call has  *)
(* its outcome drawn from a small set.                                     *)
(***************************************************************************)
EXTENDS Integers, Sequences, FiniteSets, TLC

VARIABLES
    \* ---- WithTx (tx.go) ----
    txpc,       \* position inside WithTx
    err,        \* the named result `err` of WithTx
    r,          \* the value recover() yields in the deferred function
    txcalls,    \* calls made on the database during this invocation
    txenv,      \* what each call of this invocation produced
    txout,      \* how the invocation left WithTx: returned value or fault
    \* ---- queryAnyRows / QueryAny / QueryAnyRows (any.go) ----
    qpc,        \* position inside the helper
    single,     \* parameter `single` of queryAnyRows
    rows,       \* the *sql.Rows cursor
    cols,       \* the column types ColumnTypes returned
    res,        \* the accumulated []Any
    qlog,       \* calls made on the cursor, in order
    qenv,       \* errors the stages of this invocation produced
    qret,       \* the (result, error) pair returned
    \* ---- Open / MySQLOpen ----
    opc,        \* position inside Open
    oargs,      \* the arguments of this call of Open
    db,         \* the *sql.DB pool sql.Open returned
    ocalls,     \* calls made on the sql package and the pool
    oenv,       \* errors the steps of this call produced
    oret,       \* the (handle, error) pair returned
    \* ---- Any.String (any.go) ----
    spc,        \* whether String has been applied
    m,          \* the receiver, an Any
    m0,         \* the receiver as it was before the call
    key,        \* the argument `key`
    sres        \* the string returned

txvars == <<txpc, err, r, txcalls, txenv, txout>>
qvars  == <<qpc, single, rows, cols, res, qlog, qenv, qret>>
ovars  == <<opc, oargs, db, ocalls, oenv, oret>>
svars  == <<spc, m, m0, key, sres>>
vars   == <<txpc, err, r, txcalls, txenv, txout,
           qpc, single, rows, cols, res, qlog, qenv, qret,
           opc, oargs, db, ocalls, oenv, oret,
           spc, m, m0, key, sres>>

-----------------------------------------------------------------------------
(* Bounds of the environment.                                              *)

\* Largest number of rows a result set holds.
MaxRows == 2

\* Identities of the base errors the database may report.
ErrIds == {"e1", "e2"}

\* Values a callback may panic with (non-nil: panic(nil) reaches recover()
\* as a *runtime.PanicNilError).
PanicIds == {"p1"}

\* Values a column may hold.
Values == {1, 2}

-----------------------------------------------------------------------------
(* Error values.  An error is nil, a base error, a text-only error         *)
(* (fmt.Errorf with %v), a wrapper (fmt.Errorf with %w) or a join          *)
(* (errors.Join).                                                          *)

Nil == [kind |-> "nil"]

BaseErr(id) == [kind |-> "base", id |-> id]

Errs == {BaseErr(id) : id \in ErrIds}

PanicVal(id) == [kind |-> "panicval", id |-> id]

PanicVals == {PanicVal(id) : id \in PanicIds}

\* Mutant of Join: the second error is dropped.
JoinFirstOnly(a, b) ==
    IF a = Nil THEN Nil ELSE [kind |-> "join", errs |-> <<a>>]

\* errors.Join(a, b): nil values are discarded; nil when none is left;
\* otherwise a NEW error value wrapping the ones that are left.
Join(a, b) ==
    LET kept == SelectSeq(<<a, b>>, LAMBDA e : e # Nil)
    IN  IF Len(kept) = 0 THEN Nil ELSE [kind |-> "join", errs |-> kept]

\* fmt.Errorf("%v", v): an error carrying only the text of v.
ErrorfV(v) == [kind |-> "text", msg |-> v.id]

\* Mutant of ErrorfW: the cause is formatted with %v, so it is not wrapped.
ErrorfWText(ctx, e) == [kind |-> "text", msg |-> ctx]

\* fmt.Errorf(ctx + ": %w", e): e wrapped with stage context.
ErrorfW(ctx, e) == [kind |-> "wrap", ctx |-> ctx, err |-> e]

\* errors.Is(e, target): target is e itself or is reachable by unwrapping.
RECURSIVE Contains(_, _)
Contains(e, target) ==
    \/ e = target
    \/ e.kind = "wrap" /\ Contains(e.err, target)
    \/ e.kind = "join" /\ \E i \in 1..Len(e.errs) : Contains(e.errs[i], target)

-----------------------------------------------------------------------------
(* WithTx (tx.go 34-54).                                                   *)

NoCalls == [BeginTx |-> 0, f |-> 0, Commit |-> 0, Rollback |-> 0]

\* What the environment produced in this invocation: "none" while the call
\* has not been made.
None == [kind |-> "none"]

NoTxEnv == [begin |-> None, f |-> None, panic |-> None,
            commit |-> None, rollback |-> None]

Bump(calls, op) == [calls EXCEPT ![op] = @ + 1]

\* Mutant of DeferCase: the test of err is inverted.
DeferCaseSwapped(rv, e) ==
    IF rv # Nil THEN "panic"
    ELSE IF e = Nil THEN "rollback"
    ELSE "commit"

\* Mutant of DeferCase: an error returned by the callback still commits.
DeferCaseAlwaysCommit(rv, e) ==
    IF rv # Nil THEN "panic" ELSE "commit"

\* The switch of the deferred function (tx.go 42-51).
DeferCase(rv, e) ==
    IF rv # Nil THEN "panic"
    ELSE IF e # Nil THEN "rollback"
    ELSE "commit"

\* WithTx is called: a new invocation starts.
WithTxCall ==
    /\ txpc \in {"idle", "returned", "panicked"}
    /\ txpc' = "begin"
    /\ err' = Nil
    /\ r' = Nil
    /\ txcalls' = NoCalls
    /\ txenv' = NoTxEnv
    /\ txout' = None
    /\ UNCHANGED <<qvars, ovars, svars>>

\* Mutant of TxBegin: the resolution is deferred before the error of
\* BeginTx is tested, so it also runs when no transaction was started.
TxBeginDeferFirst ==
    /\ txpc = "begin"
    /\ \E e \in Errs \cup {Nil} :
        /\ err' = e
        /\ txcalls' = Bump(txcalls, "BeginTx")
        /\ txenv' = [txenv EXCEPT !.begin = e]
        /\ txpc' = IF e # Nil THEN "deferred" ELSE "running"
    /\ UNCHANGED <<r, txout>>
    /\ UNCHANGED <<qvars, ovars, svars>>

\* tx, err = db.BeginTx(...); if err != nil { return err }   (tx.go 35-39)
TxBegin ==
    /\ txpc = "begin"
    /\ \E e \in Errs \cup {Nil} :
        /\ err' = e
        /\ txcalls' = Bump(txcalls, "BeginTx")
        /\ txenv' = [txenv EXCEPT !.begin = e]
        /\ IF e # Nil
           THEN /\ txpc' = "returned"
                /\ txout' = [kind |-> "return", val |-> e]
           ELSE /\ txpc' = "running"
                /\ txout' = txout
    /\ UNCHANGED <<r>>
    /\ UNCHANGED <<qvars, ovars, svars>>

\* return f(tx): the callback returns nil or an error, which is assigned to
\* the named result, or panics.   (tx.go 53)
TxCallback ==
    /\ txpc = "running"
    /\ txcalls' = Bump(txcalls, "f")
    /\ \/ \E e \in Errs \cup {Nil} :
            /\ err' = e
            /\ r' = Nil
            /\ txenv' = [txenv EXCEPT !.f = e]
       \/ \E p \in PanicVals :
            /\ err' = err
            /\ r' = p
            /\ txenv' = [txenv EXCEPT !.panic = p]
    /\ txpc' = "deferred"
    /\ UNCHANGED <<txout>>
    /\ UNCHANGED <<qvars, ovars, svars>>

\* The deferred function up to the end of its switch: r := recover(), then
\* Rollback or Commit and the assignment to err.   (tx.go 40-51)
TxResolve ==
    /\ txpc = "deferred"
    /\ \E e \in Errs \cup {Nil} :
        \/ /\ DeferCase(r, err) = "panic"
           /\ err' = Join(ErrorfV(r), e)
           /\ txcalls' = Bump(txcalls, "Rollback")
           /\ txenv' = [txenv EXCEPT !.rollback = e]
        \/ /\ DeferCase(r, err) = "rollback"
           /\ err' = Join(err, e)
           /\ txcalls' = Bump(txcalls, "Rollback")
           /\ txenv' = [txenv EXCEPT !.rollback = e]
        \/ /\ DeferCase(r, err) = "commit"
           /\ err' = e
           /\ txcalls' = Bump(txcalls, "Commit")
           /\ txenv' = [txenv EXCEPT !.commit = e]
    /\ txpc' = "resolved"
    /\ UNCHANGED <<r, txout>>
    /\ UNCHANGED <<qvars, ovars, svars>>

\* Mutant of ExitKind: the fault is swallowed.
ExitKindSwallow(rv) == "return"

\* How the deferred function ends: panic(err) in the recover case, else
\* WithTx returns err.   (tx.go 46, 52)
ExitKind(rv) == IF rv # Nil THEN "panic" ELSE "return"

\* WithTx is left: the fault is re-raised or err is returned.
TxExit ==
    /\ txpc = "resolved"
    /\ txout' = [kind |-> ExitKind(r), val |-> err]
    /\ txpc' = IF ExitKind(r) = "panic" THEN "panicked" ELSE "returned"
    /\ UNCHANGED <<err, r, txcalls, txenv>>
    /\ UNCHANGED <<qvars, ovars, svars>>

TxInit ==
    /\ txpc = "idle"
    /\ err = Nil
    /\ r = Nil
    /\ txcalls = NoCalls
    /\ txenv = NoTxEnv
    /\ txout = None

TxNext == WithTxCall \/ TxBegin \/ TxCallback \/ TxResolve \/ TxExit

-----------------------------------------------------------------------------
(* The cursor *sql.Rows and the column types, as any.go uses them.         *)

\* Column lists a query may produce: name and native scan type per column.
Col(name, type) == [name |-> name, scanType |-> type]

ColSets == { <<>>,
             <<Col("id", "int64")>>,
             <<Col("id", "int64"), Col("name", "string")>> }

\* Rows of a result set with n columns, and the result sets of at most
\* MaxRows rows.
RowsOf(n) == [1..n -> Values]

DataOf(n) == UNION { [1..k -> RowsOf(n)] : k \in 0..MaxRows }

NoRows == [obtained |-> FALSE, closed |-> FALSE, columns |-> <<>>,
           data |-> <<>>, pos |-> 0, lasterr |-> Nil, releases |-> 0]

\* Mutant of RowsClose: closing an already closed cursor releases it again.
RowsCloseTwice(rs) == [rs EXCEPT !.closed = TRUE, !.releases = @ + 1]

\* rows.Close() on the cursor: the first call releases it, a call on a
\* closed cursor does nothing.   (any.go 55, 73)
RowsClose(rs) ==
    IF rs.closed THEN rs
    ELSE [rs EXCEPT !.closed = TRUE, !.releases = @ + 1]

\* Errors rows.Close() may return: nil on a cursor that is already closed.
CloseOutcomes(rs) == IF rs.closed THEN {Nil} ELSE Errs \cup {Nil}

\* The error Scan reports for a destination that is not a pointer.
ErrNotPointer == BaseErr("destination not a pointer")

\* sql.ErrNoRows.
ErrNoRows == BaseErr("sql: no rows in result set")

\* reflect.Zero(t): the zero value of type t, which is not a pointer to
\* storage.
Zero(t) == [type |-> t, ptr |-> FALSE, val |-> "zero"]

\* makeRs (any.go 92-98): one scan target per column.
makeRs(cs) == [pos \in 1..Len(cs) |-> Zero(cs[pos].scanType)]

\* makeAny (any.go 84-90): the record keyed by column name; with a repeated
\* name the later column wins.
makeAny(cs, values) ==
    [n \in {cs[i].name : i \in 1..Len(cs)} |->
        LET last == CHOOSE i \in 1..Len(cs) :
                       /\ cs[i].name = n
                       /\ \A j \in 1..Len(cs) : cs[j].name = n => j <= i
        IN  values[last]]

\* Outcomes of rows.Scan(rs...): an error of the cursor or the driver, or,
\* without one, the conversion into the targets, which fails on a target
\* that is not a pointer.   (any.go 64)
ScanOutcomes(targets) ==
    Errs \cup { IF \E i \in 1..Len(targets) : ~targets[i].ptr
                THEN ErrNotPointer ELSE Nil }

\* The targets after a successful Scan of row.
Scanned(targets, row) ==
    [i \in 1..Len(targets) |-> [targets[i] EXCEPT !.val = row[i]]]

-----------------------------------------------------------------------------
(* queryAnyRows and its two entry points (any.go 28-82).                   *)

NoQEnv == [exec |-> None, describe |-> None, scan |-> None,
           close |-> None, iter |-> None, deferred |-> None]

\* Values a helper returns: the nil map, one record, or a slice of records
\* (the nil slice is the slice of length 0).
NilAny == [kind |-> "nil"]

OneAny(rec) == [kind |-> "any", any |-> rec]

Slice(list) == [kind |-> "slice", list |-> list]

NoRet == [val |-> None, err |-> None]

\* Mutant of Fail: every failure carries the context of the first stage.
FailSameContext(stage, e) ==
    [val |-> Slice(<<>>), err |-> ErrorfW("query executing", e)]

\* `return nil, fmt.Errorf(stage + ": %w", e)`.
Fail(stage, e) == [val |-> Slice(<<>>), err |-> ErrorfW(stage, e)]

\* QueryAny or QueryAnyRows is called: QueryAny passes single = true,
\* QueryAnyRows single = false.   (any.go 32, 47)
QueryCall ==
    /\ qpc \in {"idle", "done"}
    /\ single' \in BOOLEAN
    /\ qpc' = "exec"
    /\ rows' = NoRows
    /\ cols' = <<>>
    /\ res' = <<>>
    /\ qlog' = <<>>
    /\ qenv' = NoQEnv
    /\ qret' = NoRet
    /\ UNCHANGED <<txvars, ovars, svars>>

\* rows, err := conn.QueryContext(...): on an error the helper returns at
\* once, before the release is deferred.   (any.go 51-55)
QueryContext ==
    /\ qpc = "exec"
    /\ qlog' = Append(qlog, "QueryContext")
    /\ \/ \E e \in Errs :
            /\ qenv' = [qenv EXCEPT !.exec = e]
            /\ qret' = Fail("query executing", e)
            /\ qpc' = "return"
            /\ rows' = rows
       \/ \E cs \in ColSets : \E d \in DataOf(Len(cs)) :
            /\ qenv' = [qenv EXCEPT !.exec = Nil]
            /\ rows' = [NoRows EXCEPT !.obtained = TRUE, !.columns = cs,
                                       !.data = d]
            /\ qpc' = "describe"
            /\ qret' = qret
    /\ UNCHANGED <<single, cols, res>>
    /\ UNCHANGED <<txvars, ovars, svars>>

\* cols, err := rows.ColumnTypes()   (any.go 57-60)
ColumnTypes ==
    /\ qpc = "describe"
    /\ qlog' = Append(qlog, "ColumnTypes")
    /\ \E e \in Errs \cup {Nil} :
        /\ qenv' = [qenv EXCEPT !.describe = e]
        /\ IF e # Nil
           THEN /\ qret' = Fail("columns describing", e)
                /\ qpc' = "deferred"
                /\ cols' = cols
           ELSE /\ cols' = rows.columns
                /\ qpc' = "next"
                /\ qret' = qret
    /\ UNCHANGED <<single, rows, res>>
    /\ UNCHANGED <<txvars, ovars, svars>>

\* for rows.Next(): true positions the cursor on the next row; false (end
\* of the rows, or a fault of the stream kept for rows.Err) makes the
\* cursor close itself.   (any.go 62)
Next ==
    /\ qpc = "next"
    /\ qlog' = Append(qlog, "Next")
    /\ \/ /\ rows.pos < Len(rows.data)
          /\ rows' = [rows EXCEPT !.pos = @ + 1]
          /\ qpc' = "scan"
       \/ /\ rows.pos = Len(rows.data)
          /\ rows' = RowsClose(rows)
          /\ qpc' = "close"
       \/ \E e \in Errs :
          /\ rows' = [RowsClose(rows) EXCEPT !.lasterr = e]
          /\ qpc' = "close"
    /\ UNCHANGED <<single, cols, res, qenv, qret>>
    /\ UNCHANGED <<txvars, ovars, svars>>

\* if single { break }: where the loop goes after a row.   (any.go 69-71)
AfterScan(sgl) == IF sgl THEN "close" ELSE "next"

\* rs := makeRs(cols); err = rows.Scan(rs...); res = append(res,
\* makeAny(cols, rs)); if single { break }   (any.go 63-71)
Scan ==
    /\ qpc = "scan"
    /\ qlog' = Append(qlog, "Scan")
    /\ \E e \in ScanOutcomes(makeRs(cols)) :
        /\ qenv' = [qenv EXCEPT !.scan = e]
        /\ IF e # Nil
           THEN /\ qret' = Fail("rows scanning", e)
                /\ qpc' = "deferred"
                /\ res' = res
           ELSE /\ res' = Append(res, makeAny(cols,
                                Scanned(makeRs(cols), rows.data[rows.pos])))
                /\ qpc' = AfterScan(single)
                /\ qret' = qret
    /\ UNCHANGED <<single, rows, cols>>
    /\ UNCHANGED <<txvars, ovars, svars>>

\* Mutant of Close: the iteration check is taken for a duplicate of the
\* release check and left out.
CloseWithoutErr ==
    /\ qpc = "close"
    /\ qlog' = Append(qlog, "Close")
    /\ \E e \in CloseOutcomes(rows) :
        /\ qenv' = [qenv EXCEPT !.close = e]
        /\ qret' = IF e # Nil THEN Fail("rows closing", e)
                   ELSE [val |-> Slice(res), err |-> Nil]
    /\ qpc' = "deferred"
    /\ rows' = RowsClose(rows)
    /\ UNCHANGED <<single, cols, res>>
    /\ UNCHANGED <<txvars, ovars, svars>>

\* err = rows.Close() after the loop.   (any.go 73-76)
Close ==
    /\ qpc = "close"
    /\ qlog' = Append(qlog, "Close")
    /\ \E e \in CloseOutcomes(rows) :
        /\ qenv' = [qenv EXCEPT !.close = e]
        /\ IF e # Nil
           THEN /\ qret' = Fail("rows closing", e)
                /\ qpc' = "deferred"
           ELSE /\ qpc' = "iter"
                /\ qret' = qret
    /\ rows' = RowsClose(rows)
    /\ UNCHANGED <<single, cols, res>>
    /\ UNCHANGED <<txvars, ovars, svars>>

\* Mutant of Err: the records read so far are returned beside the error.
ErrKeepsRecords ==
    /\ qpc = "iter"
    /\ qlog' = Append(qlog, "Err")
    /\ qenv' = [qenv EXCEPT !.iter = rows.lasterr]
    /\ qret' = [val |-> Slice(res),
                err |-> IF rows.lasterr # Nil
                        THEN ErrorfW("rows iterating", rows.lasterr)
                        ELSE Nil]
    /\ qpc' = "deferred"
    /\ UNCHANGED <<single, rows, cols, res>>
    /\ UNCHANGED <<txvars, ovars, svars>>

\* err = rows.Err(); return res, nil   (any.go 77-81)
Err ==
    /\ qpc = "iter"
    /\ qlog' = Append(qlog, "Err")
    /\ qenv' = [qenv EXCEPT !.iter = rows.lasterr]
    /\ qret' = IF rows.lasterr # Nil
               THEN Fail("rows iterating", rows.lasterr)
               ELSE [val |-> Slice(res), err |-> Nil]
    /\ qpc' = "deferred"
    /\ UNCHANGED <<single, rows, cols, res>>
    /\ UNCHANGED <<txvars, ovars, svars>>

\* Mutant of DeferredClose: the release is not deferred.
DeferredCloseMissing ==
    /\ qpc = "deferred"
    /\ qpc' = "return"
    /\ UNCHANGED <<single, rows, cols, res, qlog, qenv, qret>>
    /\ UNCHANGED <<txvars, ovars, svars>>

\* defer func() { _ = rows.Close() }(): runs on every return after the
\* cursor was obtained; its error is dropped.   (any.go 55)
DeferredClose ==
    /\ qpc = "deferred"
    /\ qlog' = Append(qlog, "Close")
    /\ \E e \in CloseOutcomes(rows) :
        qenv' = [qenv EXCEPT !.deferred = e]
    /\ rows' = RowsClose(rows)
    /\ qpc' = "return"
    /\ UNCHANGED <<single, cols, res, qret>>
    /\ UNCHANGED <<txvars, ovars, svars>>

\* Mutant of EntryResult: QueryAny does not test the number of records.
EntryResultNoCount(sgl, ret) ==
    IF ~sgl THEN ret
    ELSE IF ret.err # Nil THEN [val |-> NilAny, err |-> ret.err]
    ELSE [val |-> IF Len(ret.val.list) = 0 THEN NilAny
                  ELSE OneAny(ret.val.list[1]),
          err |-> Nil]

\* What the entry point hands to its caller: QueryAnyRows the helper's pair,
\* QueryAny nil and the error, or sql.ErrNoRows for no record, or the first
\* record.   (any.go 31-48)
EntryResult(sgl, ret) ==
    IF ~sgl THEN ret
    ELSE IF ret.err # Nil THEN [val |-> NilAny, err |-> ret.err]
    ELSE IF Len(ret.val.list) = 0 THEN [val |-> NilAny, err |-> ErrNoRows]
    ELSE [val |-> OneAny(ret.val.list[1]), err |-> Nil]

\* The entry point returns.
QueryReturn ==
    /\ qpc = "return"
    /\ qret' = EntryResult(single, qret)
    /\ qpc' = "done"
    /\ UNCHANGED <<single, rows, cols, res, qlog, qenv>>
    /\ UNCHANGED <<txvars, ovars, svars>>

QInit ==
    /\ qpc = "idle"
    /\ single = FALSE
    /\ rows = NoRows
    /\ cols = <<>>
    /\ res = <<>>
    /\ qlog = <<>>
    /\ qenv = NoQEnv
    /\ qret = NoRet

QNext ==
    \/ QueryCall \/ QueryContext \/ ColumnTypes \/ Next \/ Scan
    \/ Close \/ Err \/ DeferredClose \/ QueryReturn

-----------------------------------------------------------------------------
(* Open and MySQLOpen: the pool is opened, configured and probed once.     *)

\* MaxConn, the maximum number of open connections MySQLOpen asks for.
MaxConn == 25

\* MaxLifetime, in seconds (5 * time.Minute).
MaxLifetime == 300

\* Timeout, in seconds (5 * time.Second).
Timeout == 5

\* MySQLDriver.
MySQLDriver == "mysql"

\* Largest maxConn a direct call of Open passes.
MaxConnArg == 2

\* Arguments of a direct call of Open.  A ping timeout of 0 leaves the
\* probe no time at all.
OpenArgs ==
    [driverName : {MySQLDriver, "other"}, maxConn : 0..MaxConnArg,
     maxLifetime : {0, MaxLifetime}, pingTimeout : {0, Timeout}]

\* Arguments MySQLOpen passes to Open.
MySQLOpenArgs ==
    [driverName |-> MySQLDriver, maxConn |-> MaxConn,
     maxLifetime |-> MaxLifetime, pingTimeout |-> Timeout]

NoArgs == [driverName |-> "", maxConn |-> 0, maxLifetime |-> 0,
           pingTimeout |-> 0]

\* No pool: the nil *sql.DB.
NilDB == [kind |-> "nil"]

\* The pool sql.Open returns, before it is configured.
NewDB(driver) ==
    [kind |-> "db", driver |-> driver, maxOpen |-> 0, maxIdle |-> 2,
     maxLifetime |-> 0]

\* context.DeadlineExceeded: the probe did not answer within pingTimeout.
DeadlineExceeded == BaseErr("context deadline exceeded")

\* Outcomes of db.PingContext(ctx) under a context that expires after
\* pingTimeout.
PingOutcomes(timeout) ==
    IF timeout <= 0 THEN {DeadlineExceeded}
    ELSE Errs \cup {DeadlineExceeded, Nil}

NoOCalls == [Open |-> 0, Ping |-> 0, cancel |-> 0]

NoOEnv == [open |-> None, ping |-> None]

NoORet == [db |-> None, err |-> None]

\* Open is called directly, or through MySQLOpen with the default settings.
OpenCall ==
    /\ opc \in {"idle", "done"}
    /\ oargs' \in OpenArgs \cup {MySQLOpenArgs}
    /\ opc' = "open"
    /\ db' = NilDB
    /\ ocalls' = NoOCalls
    /\ oenv' = NoOEnv
    /\ oret' = NoORet
    /\ UNCHANGED <<txvars, qvars, svars>>

\* db, err := sql.Open(driverName, dataSourceName); on an error Open returns
\* nil and the wrapped error.
SqlOpen ==
    /\ opc = "open"
    /\ ocalls' = Bump(ocalls, "Open")
    /\ \E e \in Errs \cup {Nil} :
        /\ oenv' = [oenv EXCEPT !.open = e]
        /\ IF e # Nil
           THEN /\ oret' = [db |-> NilDB,
                            err |-> ErrorfW("opening database", e)]
                /\ opc' = "done"
                /\ db' = db
           ELSE /\ db' = NewDB(oargs.driverName)
                /\ opc' = "config"
                /\ oret' = oret
    /\ UNCHANGED <<oargs>>
    /\ UNCHANGED <<txvars, qvars, svars>>

\* db.SetMaxOpenConns(maxConn); db.SetMaxIdleConns(maxConn);
\* db.SetConnMaxLifetime(maxLifetime)
Configure ==
    /\ opc = "config"
    /\ db' = [db EXCEPT !.maxOpen = oargs.maxConn,
                        !.maxIdle = oargs.maxConn,
                        !.maxLifetime = oargs.maxLifetime]
    /\ opc' = "ping"
    /\ UNCHANGED <<oargs, ocalls, oenv, oret>>
    /\ UNCHANGED <<txvars, qvars, svars>>

\* Mutant of PingContext: the handle is returned beside the ping error.
PingContextKeepsHandle ==
    /\ opc = "ping"
    /\ \E e \in PingOutcomes(oargs.pingTimeout) :
        /\ oenv' = [oenv EXCEPT !.ping = e]
        /\ oret' = [db |-> db,
                    err |-> IF e # Nil THEN ErrorfW("pinging database", e)
                            ELSE Nil]
    /\ ocalls' = Bump(Bump(ocalls, "Ping"), "cancel")
    /\ opc' = "done"
    /\ UNCHANGED <<oargs, db>>
    /\ UNCHANGED <<txvars, qvars, svars>>

\* ctx, cancel := context.WithTimeout(...); defer cancel();
\* err = db.PingContext(ctx): on an error Open returns nil and the wrapped
\* error, else the pool.
PingContext ==
    /\ opc = "ping"
    /\ \E e \in PingOutcomes(oargs.pingTimeout) :
        /\ oenv' = [oenv EXCEPT !.ping = e]
        /\ oret' = IF e # Nil
                   THEN [db |-> NilDB, err |-> ErrorfW("pinging database", e)]
                   ELSE [db |-> db, err |-> Nil]
    /\ ocalls' = Bump(Bump(ocalls, "Ping"), "cancel")
    /\ opc' = "done"
    /\ UNCHANGED <<oargs, db>>
    /\ UNCHANGED <<txvars, qvars, svars>>

OInit ==
    /\ opc = "idle"
    /\ oargs = NoArgs
    /\ db = NilDB
    /\ ocalls = NoOCalls
    /\ oenv = NoOEnv
    /\ oret = NoORet

ONext == OpenCall \/ SqlOpen \/ Configure \/ PingContext

-----------------------------------------------------------------------------
(* Any.String (any.go 15-26).                                              *)

\* Keys a record may hold and a caller may ask for.
Keys == {"k1", "k2"}

\* Values a record may hold under a key: the nil interface, a value with a
\* String method, a native string, anything else, and a non-nil interface
\* holding a nil pointer (which is not the nil interface).
NilValue == [kind |-> "nil"]

StringerValue(form) == [kind |-> "stringer", form |-> form]

StringValue(str) == [kind |-> "string", str |-> str]

OtherValue(text) == [kind |-> "other", text |-> text]

NilPointer == [kind |-> "other", text |-> "<nil>"]

AnyValues ==
    {NilValue, StringerValue("s"), StringValue(""), StringValue("a"),
     OtherValue("1"), NilPointer}

\* The records: every map from some of the keys to values.
Anys == UNION { [D -> AnyValues] : D \in SUBSET Keys }

\* The empty record.
EmptyAny == [k \in {} |-> NilValue]

\* m[key]: the value stored, the nil interface for a key that is missing.
Lookup(mm, k) == IF k \in DOMAIN mm THEN mm[k] ELSE NilValue

\* fmt.Sprintf("%v", v).
SprintfV(v) == IF v.kind = "nil" THEN "<nil>" ELSE v.text

\* Mutant of String: the switch has no nil case, so nil takes the default.
StringNoNilCase(mm, k) ==
    LET v == Lookup(mm, k) IN
    CASE v.kind = "stringer" -> v.form
      [] v.kind = "string"   -> v.str
      [] OTHER               -> SprintfV(v)

\* func (m Any) String(key string) string: the type switch on m[key].
String(mm, k) ==
    LET v == Lookup(mm, k) IN
    CASE v.kind = "nil"      -> ""
      [] v.kind = "stringer" -> v.form
      [] v.kind = "string"   -> v.str
      [] OTHER               -> SprintfV(v)

\* The call m.String(key).
StringCall ==
    /\ spc = "ready"
    /\ sres' = String(m, key)
    /\ spc' = "done"
    /\ UNCHANGED <<m, m0, key>>
    /\ UNCHANGED <<txvars, qvars, ovars>>

\* Before a call on any record and any key.
SInit ==
    /\ spc = "ready"
    /\ m \in Anys
    /\ m0 = m
    /\ key \in Keys
    /\ sres = ""

\* No record in use.
SIdle ==
    /\ spc = "idle"
    /\ m = EmptyAny
    /\ m0 = EmptyAny
    /\ key = ""
    /\ sres = ""

SNext == StringCall

-----------------------------------------------------------------------------
Init == TxInit /\ QInit /\ OInit /\ SIdle

AllNext == TxNext \/ QNext

Spec == Init /\ [][AllNext]_vars

\* Calls of Open and MySQLOpen alone.
SpecOpen == Init /\ [][ONext]_vars

\* One call of Any.String on each record and key.
StringInit == TxInit /\ QInit /\ OInit /\ SInit

SpecString == StringInit /\ [][SNext]_vars

-----------------------------------------------------------------------------
(* Properties of WithTx.                                                   *)

\* The deferred switch of this invocation has run.
TxResolved == txpc = "resolved" \/ (txout # None /\ txenv.begin = Nil)

\* C1: when BeginTx succeeds and the callback returns nil without a panic,
\* Commit is called exactly once and Rollback never, whether or not Commit
\* fails.
C1_CommitOnceOnSuccess ==
    txenv.f = Nil =>
        /\ txcalls.Rollback = 0
        /\ txcalls.Commit <= 1
        /\ TxResolved => txcalls.Commit = 1

\* A callback that returned nil, and a Commit that failed.
C1_Witness ==
    /\ txpc = "returned"
    /\ txenv.f = Nil
    /\ txenv.commit \in Errs
    /\ txcalls.Commit = 1

\* C2: when the callback returns a non-nil error, Rollback is called exactly
\* once and Commit never, and the error WithTx returns contains the
\* callback's error and, when Rollback fails, the rollback's error too.
C2_RollbackOnceOnError ==
    txenv.f \in Errs =>
        /\ txcalls.Commit = 0
        /\ txcalls.Rollback <= 1
        /\ TxResolved => txcalls.Rollback = 1
        /\ txout # None =>
              /\ txout.kind = "return"
              /\ Contains(txout.val, txenv.f)
              /\ txenv.rollback \in Errs => Contains(txout.val, txenv.rollback)

\* The callback failed with one error and Rollback with another.
C2_Witness ==
    /\ txpc = "returned"
    /\ txenv.f \in Errs
    /\ txenv.rollback \in Errs
    /\ txenv.rollback # txenv.f
    /\ txcalls.Rollback = 1

\* C3, in every state: when the callback panics, Rollback is called exactly
\* once and Commit never, WithTx does not return normally, and the fault it
\* re-raises carries the rollback's error when Rollback failed.
C3_PanicState ==
    txenv.panic # None =>
        /\ txcalls.Commit = 0
        /\ txcalls.Rollback <= 1
        /\ TxResolved => txcalls.Rollback = 1
        /\ txout # None =>
              /\ txout.kind = "panic"
              /\ txenv.rollback \in Errs => Contains(txout.val, txenv.rollback)

\* C3, in every step: the step that re-raises the fault starts from a state
\* in which Rollback has already been called and has answered.
C3_RaiseAfterRollback ==
    (txout = None /\ txout' # None /\ txenv.panic # None) =>
        /\ txcalls.Rollback = 1
        /\ txenv.rollback # None

\* C3: when the callback panics, Rollback is called exactly once and
\* completes before the panic is re-raised out of WithTx, Commit is never
\* called, WithTx never returns normally, and the re-raised fault carries
\* the rollback's error when Rollback failed.
C3_RollbackBeforeRepanic ==
    []C3_PanicState /\ [][C3_RaiseAfterRollback]_vars

\* The callback panicked, Rollback failed, the fault left WithTx.
C3_Witness ==
    /\ txpc = "panicked"
    /\ txenv.panic \in PanicVals
    /\ txenv.rollback \in Errs
    /\ txout.kind = "panic"

\* C4 as claimed: in every invocation, whatever the outcome of BeginTx,
\* exactly one of Commit and Rollback executes.
C4_Original ==
    txout # None => txcalls.Commit + txcalls.Rollback = 1

\* C4 as amended: an invocation whose BeginTx succeeded executes exactly one
\* of Commit and Rollback, never both; one whose BeginTx failed executes
\* neither.
C4_ExactlyOneAfterBegin ==
    /\ txcalls.Commit + txcalls.Rollback <= 1
    /\ txout # None =>
          txcalls.Commit + txcalls.Rollback
              = (IF txenv.begin = Nil THEN 1 ELSE 0)

\* An invocation that began a transaction and ended it by a Rollback that
\* failed.
C4_Witness ==
    /\ txout # None
    /\ txenv.begin = Nil
    /\ txcalls.Rollback = 1
    /\ txcalls.Commit = 0
    /\ txenv.rollback \in Errs

\* C5: when the callback returns nil without a panic, WithTx returns exactly
\* the result of Commit: its error if it fails, nil if it succeeds.
C5_ReturnsCommitResult ==
    (txenv.f = Nil /\ txout # None) =>
        /\ txout.kind = "return"
        /\ txout.val = txenv.commit

\* WithTx returned the error of a failed Commit.
C5_Witness ==
    /\ txout # None
    /\ txenv.f = Nil
    /\ txenv.commit \in Errs
    /\ txout.val = txenv.commit

\* C6 as claimed: when the callback returns a non-nil error and Rollback
\* succeeds, WithTx returns the same error value the callback returned; only
\* when Rollback also fails is a combined error returned.
C6_Original ==
    (txenv.f \in Errs /\ txout # None) =>
        /\ txenv.rollback = Nil => txout.val = txenv.f
        /\ txenv.rollback \in Errs => txout.val.kind = "join"

\* C6 as amended: when the callback returns a non-nil error and Rollback
\* succeeds, WithTx returns a new joined error that wraps the callback's
\* error and nothing else (it is not the callback's error value itself);
\* when Rollback also fails, the joined error wraps the callback's error and
\* the rollback's error, in that order.
C6_ReturnsJoinOfOriginal ==
    (txenv.f \in Errs /\ txout # None) =>
        /\ txout.val.kind = "join"
        /\ txout.val # txenv.f
        /\ txenv.rollback = Nil => txout.val.errs = <<txenv.f>>
        /\ txenv.rollback \in Errs =>
              txout.val.errs = <<txenv.f, txenv.rollback>>

\* The callback failed and Rollback succeeded.
C6_Witness ==
    /\ txpc = "returned"
    /\ txenv.f \in Errs
    /\ txenv.rollback = Nil
    /\ Contains(txout.val, txenv.f)

-----------------------------------------------------------------------------
(* Properties of the query helpers.                                        *)

\* The helper has run to its return (the deferred release included).
QReturned == qpc \in {"return", "done"}

\* Number of calls of rows.Close the helper made.
CloseCalls == Cardinality({i \in 1..Len(qlog) : qlog[i] = "Close"})

\* A stage of this invocation reported the error e.
Reported(e) == e # None /\ e # Nil

\* No record is returned: the nil map or the empty slice.
NoRecords(v) == v = NilAny \/ (v.kind = "slice" /\ Len(v.list) = 0)

\* C7: once the query has executed successfully, the cursor is released
\* before the helper returns, on every exit path.
C7_ReleasedBeforeReturn ==
    (rows.obtained /\ QReturned) => (rows.closed /\ rows.releases >= 1)

\* The exit after a scan error: the deferred call alone released the cursor.
C7_Witness ==
    /\ qpc = "done"
    /\ Reported(qenv.scan)
    /\ qenv.close = None
    /\ rows.closed

\* C8 as claimed: in every invocation that obtained a cursor the release is
\* performed exactly once, and both the release outcome and the iteration
\* error are inspected.
C8_Original ==
    (rows.obtained /\ qpc = "done") =>
        /\ rows.releases = 1
        /\ qenv.close # None
        /\ qenv.iter # None

\* C8 as amended: in every invocation that obtained a cursor the cursor is
\* released exactly once, by one call of rows.Close (after a describe or
\* scan error) or two (the checked call after the loop and the deferred
\* call, of which at most one releases); the release outcome is inspected
\* exactly when neither the description nor a scan failed, and the
\* iteration error exactly when that inspected release reported no error.
C8_ReleasedOnceChecksConditional ==
    (rows.obtained /\ qpc = "done") =>
        /\ rows.releases = 1
        /\ CloseCalls \in {1, 2}
        /\ (qenv.close # None) <=> (CloseCalls = 2)
        /\ (qenv.close # None) <=>
              (~Reported(qenv.describe) /\ ~Reported(qenv.scan))
        /\ (qenv.iter # None) <=> (qenv.close = Nil)

\* A run through both checks: two calls of rows.Close, one release.
C8_Witness ==
    /\ qpc = "done"
    /\ rows.obtained
    /\ CloseCalls = 2
    /\ rows.releases = 1
    /\ qenv.iter # None

\* Every error the stages of WithTx produced is contained in the error it
\* returned or the fault it raised.
TxErrorsKept ==
    txout # None =>
        \A e \in {txenv.begin, txenv.commit, txenv.rollback} :
            Reported(e) => Contains(txout.val, e)

\* Every error of a stage whose result the helper tests is contained in the
\* error it returned.
QErrorsKept ==
    qpc = "done" =>
        \A e \in {qenv.exec, qenv.describe, qenv.scan, qenv.close, qenv.iter} :
            Reported(e) => Contains(qret.err, e)

\* C9 as claimed: every error produced by any stage is contained in the
\* error returned to the caller, a release error on an early-exit path and
\* an iteration error when the release fails included.
C9_Original ==
    /\ TxErrorsKept
    /\ QErrorsKept
    /\ qpc = "done" =>
          /\ Reported(qenv.deferred) => Contains(qret.err, qenv.deferred)
          /\ rows.lasterr # Nil => Contains(qret.err, rows.lasterr)

\* C9 as amended: every error produced by begin, commit or rollback is
\* contained in the error WithTx returns or the fault it raises, and every
\* error produced by query execution, column description, a row scan, the
\* checked release after the loop or the iteration check is contained in the
\* error the helper returns; the error of the deferred release (the only
\* release after a describe or scan error) is dropped, and the iteration
\* error is not looked at when the checked release fails.
C9_TestedStageErrorsKept ==
    /\ TxErrorsKept
    /\ QErrorsKept
    /\ (qpc = "done" /\ Reported(qenv.close)) => qenv.iter = None

\* A scan error was returned while the deferred release failed as well.
C9_Witness ==
    /\ qpc = "done"
    /\ Reported(qenv.scan)
    /\ Contains(qret.err, qenv.scan)
    /\ Reported(qenv.deferred)
    /\ qret.err = ErrorfW("rows scanning", qenv.scan)

\* C10: rows.Err is called only after the cursor has been released, and
\* whenever the cursor carries an iteration error at the end of the stream
\* the helper returns a non-nil error and no records, even though every row
\* read so far scanned successfully.
C10_IterationErrorAfterRelease ==
    /\ \A i \in 1..Len(qlog) :
          qlog[i] = "Err" =>
              /\ rows.closed
              /\ \E j \in 1..(i - 1) : qlog[j] = "Close"
    /\ (QReturned /\ rows.lasterr # Nil) =>
          /\ qret.err # Nil
          /\ NoRecords(qret.val)

\* A row was scanned, then the stream failed: the records are given up.
C10_Witness ==
    /\ qpc = "done"
    /\ rows.lasterr # Nil
    /\ Len(res) >= 1
    /\ qret.err = ErrorfW("rows iterating", rows.lasterr)
    /\ NoRecords(qret.val)

\* The database reported no error to this invocation: the query ran, the
\* columns were described, no call on the cursor failed and the stream ended
\* without a fault.  (A Scan that fails on the helper's own targets is not an
\* error of the database.)
NoEnvFailure ==
    /\ qenv.exec = Nil
    /\ qenv.describe = Nil
    /\ qenv.scan \notin Errs
    /\ qenv.close \notin Errs
    /\ qenv.deferred \notin Errs
    /\ rows.lasterr = Nil

\* No stage of this invocation failed.
NoStageFailure == NoEnvFailure /\ ~Reported(qenv.scan)

\* Number of calls of rows.Scan and of rows.Next the helper made.
ScanCalls == Cardinality({i \in 1..Len(qlog) : qlog[i] = "Scan"})

NextCalls == Cardinality({i \in 1..Len(qlog) : qlog[i] = "Next"})

\* C11: QueryAny over a result set with zero rows, when no stage fails,
\* returns sql.ErrNoRows and a nil record; it never returns a nil record
\* together with a nil error.
C11_NoRowsIsErrNoRows ==
    (qpc = "done" /\ single) =>
        /\ (NoStageFailure /\ Len(rows.data) = 0) =>
              qret = [val |-> NilAny, err |-> ErrNoRows]
        /\ qret.val = NilAny => qret.err # Nil

\* QueryAny came back from an empty result set of a query that ran well.
C11_Witness ==
    /\ qpc = "done"
    /\ single
    /\ rows.obtained
    /\ Len(rows.data) = 0
    /\ NoStageFailure
    /\ qret.err = ErrNoRows

\* The record a row stands for: its values keyed by the column names.
RecordOf(cs, row) ==
    [n \in {cs[i].name : i \in 1..Len(cs)} |->
        row[CHOOSE i \in 1..Len(cs) :
               /\ cs[i].name = n
               /\ \A j \in 1..Len(cs) : cs[j].name = n => j <= i]]

\* C12: QueryAny over a result set with more than one row returns only the
\* first row's record: exactly one row is advanced to and scanned, and no
\* later row is scanned before the cursor is released.
C12_Original ==
    (qpc = "done" /\ single /\ Len(rows.data) > 1 /\ NoEnvFailure) =>
        /\ qret = [val |-> OneAny(RecordOf(rows.columns, rows.data[1])),
                   err |-> Nil]
        /\ NextCalls = 1
        /\ ScanCalls = 1
        /\ rows.pos = 1

\* C12, the part the code keeps: in single-result mode at most one row is
\* advanced to and scanned, whatever the result set holds.
C12_OneRowRead ==
    single => (NextCalls <= 1 /\ ScanCalls <= 1 /\ rows.pos <= 1)

\* C13: when no stage fails, QueryAnyRows over a result set of N rows returns
\* exactly N records, the i-th built from the i-th row in the order the
\* driver returned them, each keyed by exactly the column names.
C13_Original ==
    (qpc = "done" /\ ~single /\ NoEnvFailure) =>
        /\ qret.err = Nil
        /\ qret.val.kind = "slice"
        /\ Len(qret.val.list) = Len(rows.data)
        /\ \A i \in 1..Len(qret.val.list) :
              /\ qret.val.list[i] = RecordOf(rows.columns, rows.data[i])
              /\ DOMAIN qret.val.list[i]
                    = {rows.columns[k].name : k \in 1..Len(rows.columns)}

-----------------------------------------------------------------------------
(* Properties of Open and of Any.String.                                   *)

\* C14: Open returns a pool handle if and only if both the open step and
\* the probe succeed; on an open or a probe failure it returns no handle and
\* an error; the probe is attempted at most once per call, and not at all
\* when the open step failed.
C14_HandleIffOpenAndPing ==
    /\ ocalls.Open <= 1
    /\ ocalls.Ping <= 1
    /\ Reported(oenv.open) => ocalls.Ping = 0
    /\ opc = "done" =>
          /\ (oret.db # NilDB) <=> (oenv.open = Nil /\ oenv.ping = Nil)
          /\ (oret.db = NilDB) <=> (oret.err # Nil)
          /\ oret.db # NilDB => oret.db = db
          /\ Reported(oenv.open) =>
                oret.err = ErrorfW("opening database", oenv.open)
          /\ Reported(oenv.ping) =>
                oret.err = ErrorfW("pinging database", oenv.ping)

\* The pool opened, the one probe failed: no handle comes back.
C14_Witness ==
    /\ opc = "done"
    /\ oenv.open = Nil
    /\ Reported(oenv.ping)
    /\ ocalls.Ping = 1
    /\ oret.db = NilDB

-----------------------------------------------------------------------------
(* Further properties of WithTx.                                           *)

\* Position of a state of WithTx in Begin, Running, resolution, Terminal.
TxRank(pc) ==
    CASE pc = "idle"     -> 0
      [] pc = "begin"    -> 1
      [] pc = "running"  -> 2
      [] pc = "deferred" -> 3
      [] pc = "resolved" -> 4
      [] OTHER           -> 5

\* Commit and Rollback calls of this invocation.
Resolutions == txcalls.Commit + txcalls.Rollback

\* The callback of this invocation has ended, by a return or a panic.
CallbackEnded == txcalls.f = 1 /\ (txenv.f # None \/ txenv.panic # None)

\* C16, in every state: BeginTx is called once, the callback at most once
\* and only after BeginTx succeeded, and a resolution only after the
\* callback has ended.
C16_OrderState ==
    /\ txcalls.BeginTx <= 1
    /\ txcalls.f <= 1
    /\ Resolutions <= 1
    /\ TxRank(txpc) >= 2 => txcalls.BeginTx = 1
    /\ txcalls.f = 1 => (txcalls.BeginTx = 1 /\ txenv.begin = Nil)
    /\ Resolutions = 1 => CallbackEnded

\* C16, in every step of an invocation: the position only moves forward, the
\* callback starts from a state in which BeginTx has succeeded, Commit or
\* Rollback starts from a state in which the callback has ended, and once
\* one of them has answered, well or not, no further call is made.  A new
\* invocation starts only from a terminal state.
C16_OrderStep ==
    \/ UNCHANGED txvars
    \/ /\ txpc' = "begin"
       /\ TxRank(txpc) \in {0, 5}
    \/ /\ txpc' # "begin"
       /\ TxRank(txpc') > TxRank(txpc)
       /\ txcalls'.f > txcalls.f => txenv.begin = Nil
       /\ txcalls'.Commit + txcalls'.Rollback > Resolutions => CallbackEnded
       /\ Resolutions = 1 => txcalls' = txcalls

\* C16: within one invocation the steps occur only in the order Begin,
\* callback running, one resolution (Commit or Rollback), terminal: BeginTx
\* is called exactly once, the callback at most once and only after BeginTx
\* succeeded, no Commit or Rollback starts before the callback has ended,
\* and after a failed Commit or Rollback nothing is retried.
C16_BeginRunResolveTerminal ==
    []C16_OrderState /\ [][C16_OrderStep]_vars

\* An invocation that ended after a Rollback that failed: one call of each
\* of BeginTx, the callback and Rollback.
C16_Witness ==
    /\ txpc = "returned"
    /\ Reported(txenv.rollback)
    /\ txcalls = [BeginTx |-> 1, f |-> 1, Commit |-> 0, Rollback |-> 1]

\* C17: WithTx returns nil only if BeginTx succeeded, the callback returned
\* nil without a panic, and Commit was executed and succeeded.
C17_NilOnlyAfterCommit ==
    (txout # None /\ txout.kind = "return" /\ txout.val = Nil) =>
        /\ txenv.begin = Nil
        /\ txenv.f = Nil
        /\ txenv.panic = None
        /\ txenv.commit = Nil
        /\ txcalls.Commit = 1
        /\ txcalls.Rollback = 0

\* WithTx returned nil.
C17_Witness ==
    /\ txpc = "returned"
    /\ txout.val = Nil
    /\ txcalls.Commit = 1

\* C18: when BeginTx fails, WithTx returns BeginTx's error unchanged, the
\* callback is never invoked, and neither Commit nor Rollback is called.
C18_BeginFailureReturnsAtOnce ==
    Reported(txenv.begin) =>
        /\ txpc = "returned"
        /\ txout = [kind |-> "return", val |-> txenv.begin]
        /\ txcalls = [BeginTx |-> 1, f |-> 0, Commit |-> 0, Rollback |-> 0]

\* BeginTx failed and WithTx returned.
C18_Witness ==
    /\ txpc = "returned"
    /\ txenv.begin \in Errs
    /\ txout.val = txenv.begin

-----------------------------------------------------------------------------
(* Further properties of the query helpers.                                *)

\* Position of a call in the order execute, describe, scan, release,
\* iteration check.
QRank(op) ==
    CASE op = "QueryContext" -> 1
      [] op = "ColumnTypes"  -> 2
      [] op = "Next"         -> 3
      [] op = "Scan"         -> 3
      [] op = "Close"        -> 4
      [] OTHER               -> 5

\* The log without the calls of rows.Close.
WithoutClose == SelectSeq(qlog, LAMBDA op : op # "Close")

\* The error the helper owes its caller: that of the stage that failed,
\* under that stage's context; nil when none failed.
StageError ==
    CASE Reported(qenv.exec)     -> ErrorfW("query executing", qenv.exec)
      [] Reported(qenv.describe) -> ErrorfW("columns describing", qenv.describe)
      [] Reported(qenv.scan)     -> ErrorfW("rows scanning", qenv.scan)
      [] Reported(qenv.close)    -> ErrorfW("rows closing", qenv.close)
      [] Reported(qenv.iter)     -> ErrorfW("rows iterating", qenv.iter)
      [] OTHER                   -> Nil

\* C19: the stages run in the order execute, describe columns, scan rows,
\* release, iteration check; the error returned is that of the first failing
\* stage under that stage's context; after a failure no later stage but the
\* release of the cursor is performed.
C19_StagesInOrderFirstFailure ==
    /\ \A i, j \in 1..Len(qlog) :
          i < j => (QRank(qlog[i]) <= QRank(qlog[j]) \/ qlog[j] = "Close")
    /\ Reported(qenv.exec) => qlog = <<"QueryContext">>
    /\ Reported(qenv.describe) =>
          /\ WithoutClose = <<"QueryContext", "ColumnTypes">>
          /\ qenv.scan = None /\ qenv.close = None /\ qenv.iter = None
    /\ Reported(qenv.scan) =>
          /\ WithoutClose[Len(WithoutClose)] = "Scan"
          /\ ScanCalls = rows.pos
          /\ qenv.close = None /\ qenv.iter = None
    /\ Reported(qenv.close) => (qenv.iter = None /\ QRank(qlog[Len(qlog)]) = 4)
    /\ Cardinality({s \in {"exec", "describe", "scan", "close", "iter"} :
                        Reported(qenv[s])}) <= 1
    /\ qpc = "return" => qret.err = StageError
    /\ (qpc = "done" /\ StageError # Nil) => qret.err = StageError

\* The description of the columns failed: nothing but the release followed,
\* and the error carries that stage's context.
C19_Witness ==
    /\ qpc = "done"
    /\ Reported(qenv.describe)
    /\ qlog = <<"QueryContext", "ColumnTypes", "Close">>
    /\ qret.err = ErrorfW("columns describing", qenv.describe)

\* C20: QueryAny and QueryAnyRows never return both records and an error:
\* with a non-nil error the record result is nil, so rows scanned before a
\* later scan, release or iteration failure are given up.
C20_NoRecordsWithError ==
    Reported(qret.err) => NoRecords(qret.val)

\* Rows had been scanned when a later scan failed: none is returned.
C20_Witness ==
    /\ qpc = "done"
    /\ Len(res) >= 1
    /\ Reported(qenv.scan)
    /\ Reported(qret.err)
    /\ NoRecords(qret.val)

====
